---- MODULE Spec2Model ----
(***************************************************************************)
(* JWT issuance and validation of the chat application: the token signer   *)
(* of the auth service (JWTHelper), the validator and bootstrap client of  *)
(* the users manager (AuthServiceJWTValidator) and the auth service's      *)
(* routes.                                                                 *)
(*                                                                         *)
(* Time is counted in ticks of 30 seconds: the one minute safety margin of *)
(* get_microservice_jwt is 2 ticks, and the validity window of a token     *)
(* (JWT_VALIDITY_IN_HOURS) is a configured number of ticks.                *)
(*                                                                         *)
(* A string that may hold a JWT is a record                                *)
(*   [text, alg, payload, signedBy, signedOver]:                           *)
(* text is "jwt" for a well formed compact JWS (and the literal text       *)
(* otherwise), alg the algorithm of its header, payload its claims,        *)
(* signedBy the private key that made the signature and signedOver the     *)
(* header and claims the signature was made over.                          *)
(***************************************************************************)
EXTENDS Integers, Sequences, FiniteSets, TLC

VARIABLES
    now,                    \* the clock (datetime.utcnow / datetime.now)
    private_key,            \* JWTHelper._private_key
    public_key,             \* JWTHelper._public_key
    key_algorithm,          \* JWTHelper._key_algorithm
    expiration_time,        \* JWTHelper._expiration_time_in_hours
    tok,                    \* the token string under test
    payload_in,             \* the payload last given to sign_token
    signed_at,              \* the time of that sign_token call
    origin,                 \* where tok comes from: "none", "signed", "foreign"
    result,                 \* outcome of the last validation of tok
    validated_by,           \* who validated: "none", "auth_service", "users_manager"
    validated_at,           \* the time of that validation
    _public_key,            \* AuthServiceJWTValidator._public_key
    _key_algorithm,         \* AuthServiceJWTValidator._key_algorithm
    _microservice_jwt_token,                 \* the cached token
    _microservice_jwt_token_expire_datetime, \* the cached expiry
    initPc,                 \* where initial_jwt_validator stands
    attempts,               \* its local variable `attempts`
    iterations,             \* how many times its loop body was entered
    pc,                     \* per caller: where get_microservice_jwt stands
    ret,                    \* per caller: the token the call returned
    calls,                  \* per caller: bootstrap exchanges the call made
    delta,                  \* per caller: cached expiry minus the time of the check
    raised,                 \* the exception that ended the last call of each caller
    obtained,               \* per caller: the token its own refresh received
    http_request,           \* the last request an outside client sent to the auth service
    http_response,          \* the auth service's response to it
    held,                   \* the token that outside client holds
    call,                   \* the last call of an issuer or reader operation
    outcome                 \* what that call returned or raised

jwtVars == <<tok, payload_in, signed_at, origin, result, validated_by,
            validated_at>>
validatorVars == <<_public_key, _key_algorithm, _microservice_jwt_token,
                   _microservice_jwt_token_expire_datetime>>
clientVars == <<initPc, attempts, iterations, pc, ret, calls, delta, raised,
               obtained>>
sysVars == <<http_request, http_response, held>>
callVars == <<call, outcome>>
issuerVars == <<private_key, public_key, key_algorithm, expiration_time>>

(***************************************************************************)
(* Bounds of the model.                                                    *)
(***************************************************************************)
MaxTime == 5
MaxValidity == 4
MaxIter == 4
NThreads == 2

\* initial_jwt_validator: max_attempts
max_attempts == 3
\* get_microservice_jwt: timedelta(minutes=1), in ticks
Margin == 2

Keys == {"k1", "k2"}
Algorithms == {"RS256", "HS256"}

(***************************************************************************)
(* Optional values: None is the empty sequence, a value v is <<v>>.        *)
(***************************************************************************)
None == <<>>
Some(v) == <<v>>

(***************************************************************************)
(* Claims payloads.                                                        *)
(***************************************************************************)
MICROSERVICE_KEY_VALUE == "microservice"
REGISTERED_USER_KEY_VALUE == "registered_user"

USERS_MANAGER == "user_manager"
CHAT_BE == "chat_be"
MicroservicesCodeNames == {USERS_MANAGER, CHAT_BE}

MicroservicePayload(service_name) ==
    [service_name |-> service_name, token_type |-> MICROSERVICE_KEY_VALUE]

RegisteredUserPayload(user_id, email, is_active) ==
    [user_id |-> user_id, email |-> email, is_active |-> is_active,
     token_type |-> REGISTERED_USER_KEY_VALUE]

UserIds == {1, 2}
Emails == {"a@x", "b@x"}

Payloads ==
    {MicroservicePayload(s) : s \in MicroservicesCodeNames \cup {"other"}}
    \cup {RegisteredUserPayload(u, e, a) :
            u \in UserIds, e \in Emails, a \in BOOLEAN}

NoPayload == [none |-> "none"]

(***************************************************************************)
(* PyJWT, as the code calls it.                                            *)
(***************************************************************************)
WithExp(payload, exp) ==
    [k \in DOMAIN payload \cup {"exp"} |->
        IF k = "exp" THEN exp ELSE payload[k]]

jwt_encode(payload, key, algorithm) ==
    [text |-> "jwt", alg |-> algorithm, payload |-> payload, signedBy |-> key,
     signedOver |-> [alg |-> algorithm, payload |-> payload]]

\* the public key `key` verifies the signatures made by the private key of
\* the same pair
SignatureVerifies(t, key) ==
    /\ t.signedBy = key
    /\ t.signedOver = [alg |-> t.alg, payload |-> t.payload]

\* jwt.decode(jwt=t, key=key, algorithms=[algorithm]) at time `time`: the
\* exception it raises ("none": it returns the payload)
jwt_decode(t, key, algorithm, time) ==
    IF t.text # "jwt"
    THEN [exc |-> "DecodeError", payload |-> NoPayload]
    ELSE IF t.alg # algorithm
    THEN [exc |-> "InvalidAlgorithmError", payload |-> NoPayload]
    ELSE IF ~SignatureVerifies(t, key)
    THEN [exc |-> "DecodeError", payload |-> NoPayload]
    ELSE IF "exp" \in DOMAIN t.payload /\ t.payload["exp"] <= time
    THEN [exc |-> "ExpiredSignatureError", payload |-> NoPayload]
    ELSE [exc |-> "none", payload |-> t.payload]

(***************************************************************************)
(* Outcomes of a call: a returned value or a raised exception.             *)
(***************************************************************************)
Return(v) == [kind |-> "return", value |-> v, exc |-> "none", msg |-> ""]
Raise(exc, msg) == [kind |-> "raise", value |-> NoPayload, exc |-> exc, msg |-> msg]
NoResult == [kind |-> "none", value |-> NoPayload, exc |-> "none", msg |-> ""]

(***************************************************************************)
(* auth service: JWTHelper                                                 *)
(***************************************************************************)
sign_token_exp_off(payload, time) ==
    jwt_encode(WithExp(payload, time + expiration_time + 1),
               private_key, key_algorithm)

sign_token(payload, time) ==
    jwt_encode(WithExp(payload, time + expiration_time),
               private_key, key_algorithm)

validate_token_same_message(jwt_token, time) ==
    LET d == jwt_decode(jwt_token, public_key, key_algorithm, time) IN
    CASE d.exc = "none" -> Return(d.payload)
      [] d.exc = "DecodeError" ->
            Raise("JWTTokenInvalidException", "Token is not signed correctly")
      [] d.exc = "ExpiredSignatureError" ->
            Raise("JWTTokenInvalidException", "Token is not signed correctly")
      [] OTHER -> Raise(d.exc, "")

validate_token(jwt_token, time) ==
    LET d == jwt_decode(jwt_token, public_key, key_algorithm, time) IN
    CASE d.exc = "none" -> Return(d.payload)
      [] d.exc = "DecodeError" ->
            Raise("JWTTokenInvalidException", "Token is not signed correctly")
      [] d.exc = "ExpiredSignatureError" ->
            Raise("JWTTokenInvalidException", "Token has expired")
      [] OTHER -> Raise(d.exc, "")

(***************************************************************************)
(* users manager: AuthServiceJWTValidator._validate_token                  *)
(***************************************************************************)
_validate_token_with(jwt_token, key, algorithm, time) ==
    LET d == jwt_decode(jwt_token, key, algorithm, time) IN
    CASE d.exc = "none" -> Return(d.payload)
      [] d.exc = "DecodeError" ->
            Raise("JWTTokenInvalidException", "Token is not signed correctly")
      [] d.exc = "ExpiredSignatureError" ->
            Raise("JWTTokenInvalidException", "Token has expired")
      [] d.exc = "InvalidAlgorithmError" ->
            Raise("JWTTokenInvalidException",
                  "Failed deciphering JWT token with current key algorithm")
      [] OTHER -> Raise(d.exc, "")

\* _validate_token on the validator's own fields
_validate_token(jwt_token, time) ==
    _validate_token_with(jwt_token, _public_key[1], _key_algorithm[1], time)

(***************************************************************************)
(* The token signer and reader on its own: tokens are signed by the auth   *)
(* service or arrive from elsewhere, and are validated by the auth service *)
(* (validate_token) or by a validator that fetched the auth service's      *)
(* public key (_validate_token).                                           *)
(***************************************************************************)
\* token strings that did not come out of sign_token: any header algorithm,
\* any signing key, any claims and expiry, a signature made over other
\* content, or no JWT at all
ForeignExps == 0 .. MaxTime

ForeignBasePayloads ==
    {MicroservicePayload(CHAT_BE), RegisteredUserPayload(1, "a@x", TRUE)}

ForeignPayloads ==
    ForeignBasePayloads
    \cup {WithExp(p, e) : p \in ForeignBasePayloads, e \in ForeignExps}

OtherPayload(p) ==
    IF "service_name" \in DOMAIN p /\ p["service_name"] = CHAT_BE
    THEN [p EXCEPT !["service_name"] = USERS_MANAGER]
    ELSE MicroservicePayload(CHAT_BE)

ForeignTokens ==
    {jwt_encode(p, k, a) : p \in ForeignPayloads, k \in Keys, a \in Algorithms}
    \cup {[jwt_encode(OtherPayload(p), k, a) EXCEPT !.payload = p] :
            p \in ForeignPayloads, k \in Keys, a \in Algorithms}
    \cup {[jwt_encode(NoPayload, "k1", "RS256") EXCEPT !.text = "garbage"]}

Threads == 1 .. NThreads

\* AuthServiceJWTValidator.__init__, and no call of get_microservice_jwt yet
InitClient ==
    /\ initPc = "start"
    /\ attempts = 0
    /\ iterations = 0
    /\ pc = [t \in Threads |-> "idle"]
    /\ ret = [t \in Threads |-> None]
    /\ calls = [t \in Threads |-> 0]
    /\ delta = [t \in Threads |-> 0]
    /\ raised = [t \in Threads |-> "none"]
    /\ obtained = [t \in Threads |-> None]

\* no request to the auth service yet
NoRequest == [route |-> "none", header |-> <<>>, body |-> NoPayload]
NoResponse == [status |-> 0, body |-> NoPayload, detail |-> ""]

InitSys ==
    /\ http_request = NoRequest
    /\ http_response = NoResponse
    /\ held = None

\* no issuer or reader operation called yet
NoCall == [op |-> "none", by |-> "none", at |-> 0, args |-> NoPayload]

InitCall ==
    /\ call = NoCall
    /\ outcome = NoResult

\* the key pair and validity window of the auth service's environment; the
\* private key is "k1" (the names of the keys are symmetric)
InitIssuer ==
    /\ private_key = "k1"
    /\ public_key \in Keys
    /\ key_algorithm = "RS256"
    /\ expiration_time \in 0 .. MaxValidity

InitJwt ==
    /\ now = 0
    /\ InitIssuer
    /\ tok = jwt_encode(NoPayload, "k1", "RS256")
    /\ payload_in = NoPayload
    /\ signed_at = 0
    /\ origin = "none"
    /\ result = NoResult
    /\ validated_by = "none"
    /\ validated_at = 0
    /\ _public_key = Some(public_key)
    /\ _key_algorithm = Some(key_algorithm)
    /\ _microservice_jwt_token = None
    /\ _microservice_jwt_token_expire_datetime = None
    /\ InitClient
    /\ InitSys
    /\ InitCall

Tick ==
    /\ now < MaxTime
    /\ now' = now + 1

JwtTick ==
    /\ Tick
    /\ UNCHANGED <<issuerVars, sysVars, callVars, jwtVars, validatorVars, clientVars>>

\* sign_token(payload) for a payload of the data model
SignToken ==
    \E p \in Payloads :
        /\ tok' = sign_token(p, now)
        /\ payload_in' = p
        /\ signed_at' = now
        /\ origin' = "signed"
        /\ result' = NoResult
        /\ validated_by' = "none"
        /\ validated_at' = 0
        /\ UNCHANGED <<now, issuerVars, sysVars, callVars, validatorVars, clientVars>>

\* a token string arrives from outside
ForeignToken ==
    \E t \in ForeignTokens :
        /\ tok' = t
        /\ payload_in' = NoPayload
        /\ signed_at' = 0
        /\ origin' = "foreign"
        /\ result' = NoResult
        /\ validated_by' = "none"
        /\ validated_at' = 0
        /\ UNCHANGED <<now, issuerVars, sysVars, callVars, validatorVars, clientVars>>

\* JWTHelper.validate_token(tok)
ValidateToken ==
    /\ origin # "none"
    /\ result' = validate_token(tok, now)
    /\ validated_by' = "auth_service"
    /\ validated_at' = now
    /\ UNCHANGED <<now, issuerVars, sysVars, callVars, validatorVars, clientVars, tok, payload_in,
                   signed_at, origin>>

\* AuthServiceJWTValidator._validate_token(tok)
ValidatorValidateToken ==
    /\ origin # "none"
    /\ result' = _validate_token(tok, now)
    /\ validated_by' = "users_manager"
    /\ validated_at' = now
    /\ UNCHANGED <<now, issuerVars, sysVars, callVars, validatorVars, clientVars, tok, payload_in,
                   signed_at, origin>>

NextJwt ==
    JwtTick \/ SignToken \/ ForeignToken \/ ValidateToken \/ ValidatorValidateToken

vars == <<now, issuerVars, jwtVars, validatorVars, clientVars, sysVars,
          callVars>>

SpecJwt == InitJwt /\ [][NextJwt]_vars

(***************************************************************************)
(* users manager: the bootstrap client of AuthServiceJWTValidator.         *)
(*                                                                         *)
(* An HTTP exchange with the auth service ends in a response: the request  *)
(* failed (RequestException), the status was not 2xx, the body was no JSON *)
(* or the body was a JSON object.                                          *)
(***************************************************************************)
FailedGetting == "FailedGettingAuthServiceResponseException"

HttpFailures == {"RequestException", "bad_status", "bad_json"}
FailedResponse(k) == [kind |-> k, body |-> NoPayload]
JsonResponse(body) == [kind |-> "json", body |-> body]

_query_auth_service_api(resp) ==
    IF resp.kind = "json" THEN Return(resp.body) ELSE Raise(FailedGetting, "")

\* _set_public_key_from_auth_service, given the response to its request:
\* the exception it ends with and the fields it leaves
_set_public_key_from_auth_service(resp) ==
    LET q == _query_auth_service_api(resp) IN
    IF q.kind = "raise" \/ "public_key" \notin DOMAIN q.value
    THEN [exc |-> FailedGetting, key |-> _public_key, alg |-> _key_algorithm]
    ELSE IF "key_format_algorithm" \notin DOMAIN q.value
    THEN [exc |-> FailedGetting, key |-> Some(q.value["public_key"]),
          alg |-> _key_algorithm]
    ELSE [exc |-> "none", key |-> Some(q.value["public_key"]),
          alg |-> Some(q.value["key_format_algorithm"])]

\* _get_microservice_jwt_token_from_auth_service, given the response to its
\* request and the key it validates with: the exception it ends with and
\* the fields it leaves
_get_microservice_jwt_token_from_auth_service(resp, key, algorithm, time) ==
    LET q == _query_auth_service_api(resp) IN
    IF q.kind = "raise" \/ "jwt_token" \notin DOMAIN q.value
    THEN [exc |-> FailedGetting, token |-> _microservice_jwt_token,
          expire |-> _microservice_jwt_token_expire_datetime]
    ELSE LET t == q.value["jwt_token"]
             v == _validate_token_with(t, key, algorithm, time)
         IN  IF v.kind = "raise"
             THEN [exc |-> v.exc, token |-> Some(t),
                   expire |-> _microservice_jwt_token_expire_datetime]
             ELSE IF "exp" \notin DOMAIN v.value
             THEN [exc |-> FailedGetting, token |-> Some(t),
                   expire |-> _microservice_jwt_token_expire_datetime]
             ELSE [exc |-> "none", token |-> Some(t),
                   expire |-> Some(v.value["exp"])]

\* get_microservice_jwt: the test that decides a refresh
NeedsRefreshFlipped(expire, time) == expire > time - Margin

NeedsRefresh(expire, time) == expire < time - Margin

(***************************************************************************)
(* What the auth service answers, as far as the client can tell: any       *)
(* failure, a JSON body that lacks fields, or the public key and a token   *)
(* signed by the auth service.                                             *)
(***************************************************************************)
PublicKeyBody == [public_key |-> public_key, key_format_algorithm |-> key_algorithm]

KeyResponses ==
    {FailedResponse(k) : k \in HttpFailures}
    \cup {JsonResponse(NoPayload), JsonResponse([public_key |-> public_key]),
          JsonResponse(PublicKeyBody)}

TokenBody(time) ==
    [jwt_token |-> sign_token(MicroservicePayload(USERS_MANAGER), time)]

TokenResponses(time) ==
    {FailedResponse(k) : k \in HttpFailures}
    \cup {JsonResponse(NoPayload), JsonResponse(TokenBody(time))}

(***************************************************************************)
(* initial_jwt_validator                                                   *)
(***************************************************************************)
\* the loop test `attempts < max_attempts`, and what follows it
LoopTest ==
    IF attempts < max_attempts
    THEN /\ iterations < MaxIter
         /\ initPc' = "get_key"
         /\ iterations' = iterations + 1
    ELSE /\ initPc' = "failed"
         /\ iterations' = iterations

\* the call of initial_jwt_validator, up to its first request
InitStart ==
    /\ initPc = "start"
    /\ LoopTest
    /\ UNCHANGED <<now, issuerVars, sysVars, callVars, jwtVars, validatorVars, attempts, pc, ret,
                   calls, delta, raised, obtained>>

\* the response to the get_public_key request
InitKeyResponse(resp) ==
    /\ initPc = "get_key"
    /\ LET r == _set_public_key_from_auth_service(resp) IN
        /\ _public_key' = r.key
        /\ _key_algorithm' = r.alg
        /\ initPc' = IF r.exc = "none" THEN "get_token" ELSE "sleep"
    /\ UNCHANGED <<now, issuerVars, sysVars, callVars, jwtVars, _microservice_jwt_token,
                   _microservice_jwt_token_expire_datetime, attempts, iterations,
                   pc, ret, calls, delta, raised, obtained>>

\* the response to the issue token request
InitTokenResponse(resp) ==
    /\ initPc = "get_token"
    /\ LET r == _get_microservice_jwt_token_from_auth_service(
                    resp, _public_key[1], _key_algorithm[1], now) IN
        /\ _microservice_jwt_token' = r.token
        /\ _microservice_jwt_token_expire_datetime' = r.expire
        /\ initPc' = CASE r.exc = "none" -> "ready"
                       [] r.exc = FailedGetting -> "sleep"
                       [] OTHER -> "raised"
    /\ UNCHANGED <<now, issuerVars, sysVars, callVars, jwtVars, _public_key, _key_algorithm,
                   attempts, iterations, pc, ret, calls, delta, raised, obtained>>

\* the end of sleep(10) and the next loop test
InitWake ==
    /\ initPc = "sleep"
    /\ LoopTest
    /\ UNCHANGED <<now, issuerVars, sysVars, callVars, jwtVars, validatorVars, attempts, pc, ret,
                   calls, delta, raised, obtained>>

(***************************************************************************)
(* get_microservice_jwt, called by the request handling threads            *)
(***************************************************************************)
\* the call, up to the test of the cached expiry
Check(t) ==
    /\ pc[t] = "idle"
    /\ IF _microservice_jwt_token_expire_datetime = None
       THEN /\ pc' = [pc EXCEPT ![t] = "raised"]
            /\ raised' = [raised EXCEPT ![t] = "TypeError"]
            /\ UNCHANGED delta
       ELSE LET expire == _microservice_jwt_token_expire_datetime[1] IN
            /\ pc' = [pc EXCEPT ![t] =
                        IF NeedsRefresh(expire, now) THEN "requesting" ELSE "fresh"]
            /\ delta' = [delta EXCEPT ![t] = expire - now]
            /\ UNCHANGED raised
    /\ calls' = [calls EXCEPT ![t] =
                    IF pc'[t] = "requesting" THEN 1 ELSE 0]
    /\ UNCHANGED <<now, issuerVars, sysVars, callVars, jwtVars, validatorVars, initPc, attempts,
                   iterations, ret, obtained>>

\* the response to the issue token request of a refresh
RefreshResponse(t, resp) ==
    /\ pc[t] = "requesting"
    /\ LET r == _get_microservice_jwt_token_from_auth_service(
                    resp, _public_key[1], _key_algorithm[1], now) IN
        /\ _microservice_jwt_token' = r.token
        /\ _microservice_jwt_token_expire_datetime' = r.expire
        /\ pc' = [pc EXCEPT ![t] = IF r.exc = "none" THEN "refreshed" ELSE "raised"]
        /\ raised' = [raised EXCEPT ![t] = r.exc]
        /\ obtained' = [obtained EXCEPT ![t] =
                            IF r.exc = "none" THEN r.token ELSE None]
    /\ UNCHANGED <<now, issuerVars, sysVars, callVars, jwtVars, _public_key, _key_algorithm, initPc,
                   attempts, iterations, ret, calls, delta>>

\* return self._microservice_jwt_token
ReturnToken(t) ==
    /\ pc[t] \in {"fresh", "refreshed"}
    /\ pc' = [pc EXCEPT ![t] = "returned"]
    /\ ret' = [ret EXCEPT ![t] = _microservice_jwt_token]
    /\ UNCHANGED <<now, issuerVars, sysVars, callVars, jwtVars, validatorVars, initPc, attempts,
                   iterations, calls, delta, raised, obtained>>

\* the caller goes on; it may call again
Done(t) ==
    /\ pc[t] \in {"returned", "raised"}
    /\ pc' = [pc EXCEPT ![t] = "idle"]
    /\ ret' = [ret EXCEPT ![t] = None]
    /\ calls' = [calls EXCEPT ![t] = 0]
    /\ delta' = [delta EXCEPT ![t] = 0]
    /\ raised' = [raised EXCEPT ![t] = "none"]
    /\ obtained' = [obtained EXCEPT ![t] = None]
    /\ UNCHANGED <<now, issuerVars, sysVars, callVars, jwtVars, validatorVars, initPc, attempts,
                   iterations>>

ClientTick ==
    /\ Tick
    /\ UNCHANGED <<issuerVars, sysVars, callVars, jwtVars, validatorVars, clientVars>>

InitJwtIdle ==
    /\ tok = jwt_encode(NoPayload, "k1", "RS256")
    /\ payload_in = NoPayload
    /\ signed_at = 0
    /\ origin = "none"
    /\ result = NoResult
    /\ validated_by = "none"
    /\ validated_at = 0

Init ==
    /\ now = 0
    /\ InitIssuer
    /\ InitJwtIdle
    /\ _public_key = None
    /\ _key_algorithm = None
    /\ _microservice_jwt_token = None
    /\ _microservice_jwt_token_expire_datetime = None
    /\ InitClient
    /\ InitSys
    /\ InitCall

InitKey == \E resp \in KeyResponses : InitKeyResponse(resp)
InitToken == \E resp \in TokenResponses(now) : InitTokenResponse(resp)
CallerCheck == \E t \in Threads : Check(t)
CallerRefresh == \E t \in Threads : \E resp \in TokenResponses(now) : RefreshResponse(t, resp)
CallerReturn == \E t \in Threads : ReturnToken(t)
CallerDone == \E t \in Threads : Done(t)

Next ==
    \/ ClientTick
    \/ InitStart
    \/ InitKey
    \/ InitToken
    \/ InitWake
    \/ CallerCheck
    \/ CallerRefresh
    \/ CallerReturn
    \/ CallerDone

Spec == Init /\ [][Next]_vars

(***************************************************************************)
(* auth service: JWTIssuer, AuthHTTPRequest and the routes of main.py.     *)
(*                                                                         *)
(* The value of an Authorization header is the sequence of the parts that  *)
(* str.split(" ") makes of it; a part is a string that may hold a JWT.     *)
(***************************************************************************)
Word(text) == [jwt_encode(NoPayload, "k1", "RS256") EXCEPT !.text = text]

\* the shared secrets of the registered microservices
\* (MICROSERVICES_TOKENS_DICT, read from the environment)
MICROSERVICES_TOKENS_DICT ==
    [n \in MicroservicesCodeNames |->
        IF n = USERS_MANAGER THEN "secret_user_manager" ELSE "secret_chat_be"]

Secrets == {"secret_user_manager", "secret_chat_be", "wrong"}

\* _authenticate_service_token, were any registered secret accepted for any
\* registered name
_authenticate_service_token_any_secret(micro_service_initial_token, micro_service_name) ==
    IF micro_service_name \in DOMAIN MICROSERVICES_TOKENS_DICT
    THEN \E n \in DOMAIN MICROSERVICES_TOKENS_DICT :
            MICROSERVICES_TOKENS_DICT[n] = micro_service_initial_token
    ELSE FALSE

\* _authenticate_service_token, were the name not looked up
_authenticate_service_token_no_lookup(micro_service_initial_token, micro_service_name) ==
    IF micro_service_name \in DOMAIN MICROSERVICES_TOKENS_DICT
    THEN MICROSERVICES_TOKENS_DICT[micro_service_name] = micro_service_initial_token
    ELSE MICROSERVICES_TOKENS_DICT[USERS_MANAGER] = micro_service_initial_token

_authenticate_service_token(micro_service_initial_token, micro_service_name) ==
    IF micro_service_name \in DOMAIN MICROSERVICES_TOKENS_DICT
    THEN MICROSERVICES_TOKENS_DICT[micro_service_name] = micro_service_initial_token
    ELSE FALSE

\* issue_micro_service_jwt, were the token made out to the users manager
\* whatever the name
issue_micro_service_jwt_fixed_name(micro_service_initial_token, micro_service_name, time) ==
    IF ~_authenticate_service_token(micro_service_initial_token, micro_service_name)
    THEN Raise("MicroserviceAuthenticationTokenInvalidException", "")
    ELSE Return(sign_token(MicroservicePayload(USERS_MANAGER), time))

issue_micro_service_jwt(micro_service_initial_token, micro_service_name, time) ==
    IF ~_authenticate_service_token(micro_service_initial_token, micro_service_name)
    THEN Raise("MicroserviceAuthenticationTokenInvalidException", "")
    ELSE Return(sign_token(MicroservicePayload(micro_service_name), time))

\* issue_user_jwt, were every user issued an active token
issue_user_jwt_always_active(user_id, email, is_active, time) ==
    sign_token(RegisteredUserPayload(user_id, email, TRUE), time)

issue_user_jwt(user_id, email, is_active, time) ==
    sign_token(RegisteredUserPayload(user_id, email, is_active), time)

\* JWTIssuer._parse_microservice_token
_parse_microservice_token(jwt_token_payload) ==
    IF {"token_type", "service_name"} \subseteq DOMAIN jwt_token_payload
    THEN Return([token_type |-> jwt_token_payload["token_type"],
                 service_name |-> jwt_token_payload["service_name"]])
    ELSE Raise("FailedParsingJWTToken", "")

\* JWTIssuer._parse_registered_user_token
_parse_registered_user_token(jwt_token_payload) ==
    IF {"token_type", "user_id", "email", "is_active"} \subseteq DOMAIN jwt_token_payload
    THEN Return([token_type |-> jwt_token_payload["token_type"],
                 user_id |-> jwt_token_payload["user_id"],
                 email |-> jwt_token_payload["email"],
                 is_active |-> jwt_token_payload["is_active"]])
    ELSE Raise("FailedParsingJWTToken", "")

\* JWTIssuer.read_jwt_token: the typed claims (their token_type is the
\* token type it returns with them)
read_jwt_token(jwt_token, time) ==
    LET v == validate_token(jwt_token, time) IN
    IF v.kind = "raise"
    THEN IF v.exc = "JWTTokenInvalidException"
         THEN Raise("JWTInvalidAuthException", "")
         ELSE v
    ELSE IF "token_type" \notin DOMAIN v.value
    THEN Raise("KeyError", "token_type")
    ELSE IF v.value["token_type"] = MICROSERVICE_KEY_VALUE
    THEN _parse_microservice_token(v.value)
    ELSE IF v.value["token_type"] = REGISTERED_USER_KEY_VALUE
    THEN _parse_registered_user_token(v.value)
    ELSE Raise("FailedParsingJWTToken", "")

\* AuthHTTPRequest.parse_auth_bearer_header
parse_auth_bearer_header(authorization_bearer_header) ==
    LET header_values == authorization_bearer_header IN
    IF Len(header_values) < 2
    THEN Raise("AuthorizationHeaderInvalidHeaderFormat",
               "Authorization token is too short and missing parts")
    ELSE IF Len(header_values) # 2
    THEN Raise("AuthorizationHeaderInvalidHeaderFormat",
               "Authorization token has too many parts")
    ELSE IF header_values[1].text # "Bearer"
    THEN Raise("AuthorizationHeaderInvalidHeaderFormat",
               "Authorization token missing 'Bearer' in its beginning")
    ELSE IF header_values[2].text = ""
    THEN Raise("AuthorizationHeaderInvalidHeaderFormat",
               "Token attached to authorization token is empty")
    ELSE Return(header_values[2])

\* AuthHTTPRequest.verify_micro_service_jwt_token; micro_service_name is
\* None or a name. A call that ends without a return statement returns
\* Python's None, here NoPayload.
verify_micro_service_jwt_token(authorization_bearer_header, micro_service_name, time) ==
    LET h == parse_auth_bearer_header(authorization_bearer_header) IN
    IF h.kind = "raise" THEN h
    ELSE LET r == read_jwt_token(h.value, time) IN
         IF r.kind = "raise"
         THEN IF r.exc \in {"FailedParsingJWTToken", "JWTInvalidAuthException"}
              THEN Raise("AuthorizationHeaderInvalidToken", "Failed reading the JWT token!")
              ELSE r
         ELSE IF r.value["token_type"] # MICROSERVICE_KEY_VALUE
         THEN Raise("AuthorizationHeaderJWTTokenNotPermitted", "")
         ELSE IF micro_service_name # None
         THEN IF r.value["service_name"] # micro_service_name[1]
              THEN Raise("AuthorizationHeaderJWTTokenNotPermitted", "")
              ELSE Return(NoPayload)
         ELSE r

\* main.py: an HTTP response
Response(status, body, detail) == [status |-> status, body |-> body, detail |-> detail]

\* main.py: the value FastAPI gives the parameter declared
\* Header("Authorization") when the request carries no such header
DefaultHeader == <<Word("Authorization")>>

\* main.py: require_microservice_jwt_token: the typed claims, or the
\* response that ends the request
require_microservice_jwt_token(authorization_bearer_header, time) ==
    LET v == verify_micro_service_jwt_token(authorization_bearer_header, None, time) IN
    IF v.kind = "return" THEN v
    ELSE CASE v.exc = "AuthorizationHeaderJWTTokenNotPermitted" ->
                Raise("HTTPException", "Not permitted to use this API route")
           [] v.exc = "AuthorizationHeaderInvalidHeaderFormat" ->
                Raise("HTTPException", "Authorization header content is invalid")
           [] v.exc = "AuthorizationHeaderInvalidToken" ->
                Raise("HTTPException", "JWT given is invalid")
           [] OTHER -> v

\* what FastAPI makes of a dependency that raised
ErrorResponse(v) ==
    IF v.exc = "HTTPException"
    THEN Response(401, NoPayload, v.msg)
    ELSE Response(500, NoPayload, "Internal Server Error")

\* main.py: GET /get_public_key
get_public_key(authorization_bearer_header, time) ==
    LET microservice_token ==
            require_microservice_jwt_token(authorization_bearer_header, time) IN
    IF microservice_token.kind = "raise"
    THEN ErrorResponse(microservice_token)
    ELSE Response(200, PublicKeyBody, "Successfully returned public key")

\* main.py: POST /issue_service_jwt
sign_service_jwt(service_auth_details, time) ==
    LET j == issue_micro_service_jwt(
                service_auth_details["micro_service_initial_token"],
                service_auth_details["micro_service_name"], time) IN
    IF j.kind = "raise"
    THEN Response(400, service_auth_details,
                  "Wrong token given, no micro-service JWT token issued")
    ELSE Response(201, [jwt_token |-> j.value],
                  "Successfully returned a micro-service JWT token")

(***************************************************************************)
(* The users manager starting against the auth service, while other        *)
(* clients send the auth service requests of their own.                    *)
(***************************************************************************)
\* _query_auth_service_api: the response of a reachable auth service, as
\* the client classifies it
ToClientResponse(r) ==
    IF r.status >= 200 /\ r.status <= 299
    THEN JsonResponse(r.body)
    ELSE FailedResponse("bad_status")

\* the requests of initial_jwt_validator: get_public_key without an
\* Authorization header, issue_service_jwt with the configured name and
\* shared secret
ClientKeyRequest == DefaultHeader

ClientTokenRequest ==
    [micro_service_name |-> USERS_MANAGER,
     micro_service_initial_token |-> MICROSERVICES_TOKENS_DICT[USERS_MANAGER]]

\* the auth service answers the request initial_jwt_validator is waiting on
SysInitExchange ==
    /\ initPc \in {"get_key", "get_token"}
    /\ IF initPc = "get_key"
       THEN InitKeyResponse(ToClientResponse(get_public_key(ClientKeyRequest, now)))
       ELSE InitTokenResponse(ToClientResponse(sign_service_jwt(ClientTokenRequest, now)))

\* the Authorization headers another client may send
SysHeaders ==
    {DefaultHeader, <<Word("Bearer")>>, <<Word("Bearer"), Word("")>>,
     <<Word("Bearer"), Word("garbage")>>,
     <<Word("Bearer"), issue_user_jwt(1, "a@x", TRUE, now)>>}
    \cup (IF held = None THEN {}
          ELSE {<<Word("Bearer"), held[1]>>, <<Word("Token"), held[1]>>,
                <<Word("Bearer"), held[1], Word("x")>>})

\* another client asks for the public key
SysGetPublicKey ==
    \E h \in SysHeaders :
        /\ http_request' = [route |-> "get_public_key", header |-> h, body |-> NoPayload]
        /\ http_response' = get_public_key(h, now)
        /\ UNCHANGED <<now, issuerVars, jwtVars, validatorVars, clientVars, held,
                       callVars>>

\* another client asks for a microservice token and keeps what it gets
SysIssueServiceJwt ==
    \E n \in MicroservicesCodeNames \cup {"other"}, secret \in Secrets :
        LET d == [micro_service_name |-> n, micro_service_initial_token |-> secret]
            r == sign_service_jwt(d, now)
        IN  /\ http_request' = [route |-> "issue_service_jwt", header |-> <<>>, body |-> d]
            /\ http_response' = r
            /\ held' = IF r.status = 201 THEN Some(r.body["jwt_token"]) ELSE held
            /\ UNCHANGED <<now, issuerVars, jwtVars, validatorVars, clientVars,
                           callVars>>

NextSys ==
    \/ ClientTick
    \/ InitStart
    \/ InitWake
    \/ SysInitExchange
    \/ SysGetPublicKey
    \/ SysIssueServiceJwt

SpecSys == Init /\ [][NextSys]_vars

(***************************************************************************)
(* Issuing and reading tokens: JWTIssuer of the auth service, the reader   *)
(* of AuthServiceJWTValidator (users manager) and the AuthHTTPRequest      *)
(* classes in front of them.                                               *)
(***************************************************************************)
\* JWTIssuer.is_token_valid
is_token_valid(jwt_token, time) ==
    LET v == validate_token(jwt_token, time) IN
    IF v.kind = "return" THEN Return(TRUE)
    ELSE IF v.exc = "JWTTokenInvalidException" THEN Return(FALSE)
    ELSE v

\* main.py: POST /validate_jwt_token. The handler declares no parameter for
\* the request body and validates the literal "test".
validate_jwt_token(request_body, time) ==
    LET jwt_token == Word("test")
        v == is_token_valid(jwt_token, time)
    IN  IF v.kind = "raise" THEN ErrorResponse(v)
        ELSE IF v.value
        THEN Response(201, [is_jwt_valid |-> TRUE], "JWT token is valid")
        ELSE Response(401, [is_jwt_valid |-> FALSE], "JWT token is invalid")

\* AuthHTTPRequest.verify_registered_user_jwt_token of the auth service
verify_registered_user_jwt_token(authorization_bearer_header, time) ==
    LET h == parse_auth_bearer_header(authorization_bearer_header) IN
    IF h.kind = "raise" THEN h
    ELSE LET r == read_jwt_token(h.value, time) IN
         IF r.kind = "raise"
         THEN IF r.exc \in {"FailedParsingJWTToken", "JWTInvalidAuthException"}
              THEN Raise("AuthorizationHeaderInvalidToken", "Failed reading the JWT token!")
              ELSE r
         ELSE IF r.value["token_type"] # REGISTERED_USER_KEY_VALUE
         THEN Raise("AuthorizationHeaderJWTTokenNotPermitted", "")
         ELSE r

\* AuthServiceJWTValidator._parse_microservice_token
AuthServiceJWTValidator_parse_microservice_token(jwt_token_payload) ==
    IF {"token_type", "service_name"} \subseteq DOMAIN jwt_token_payload
    THEN Return([token_type |-> jwt_token_payload["token_type"],
                 service_name |-> jwt_token_payload["service_name"]])
    ELSE Raise("FailedParsingJWTToken", "")

\* AuthServiceJWTValidator._parse_registered_user_token, were email optional
AuthServiceJWTValidator_parse_registered_user_token_email_optional(jwt_token_payload) ==
    IF {"token_type", "user_id", "is_active"} \subseteq DOMAIN jwt_token_payload
    THEN Return([k \in DOMAIN jwt_token_payload \cap
                        {"token_type", "user_id", "email", "is_active"} |->
                    jwt_token_payload[k]])
    ELSE Raise("FailedParsingJWTToken", "")

\* AuthServiceJWTValidator._parse_registered_user_token
AuthServiceJWTValidator_parse_registered_user_token(jwt_token_payload) ==
    IF {"token_type", "user_id", "email", "is_active"} \subseteq DOMAIN jwt_token_payload
    THEN Return([token_type |-> jwt_token_payload["token_type"],
                 user_id |-> jwt_token_payload["user_id"],
                 email |-> jwt_token_payload["email"],
                 is_active |-> jwt_token_payload["is_active"]])
    ELSE Raise("FailedParsingJWTToken", "")

\* AuthServiceJWTValidator.read_jwt_token
AuthServiceJWTValidator_read_jwt_token(jwt_token, time) ==
    LET v == _validate_token(jwt_token, time) IN
    IF v.kind = "raise"
    THEN IF v.exc = "JWTTokenInvalidException"
         THEN Raise("JWTInvalidAuthException", "")
         ELSE v
    ELSE IF "token_type" \notin DOMAIN v.value
    THEN Raise("KeyError", "token_type")
    ELSE IF v.value["token_type"] = MICROSERVICE_KEY_VALUE
    THEN AuthServiceJWTValidator_parse_microservice_token(v.value)
    ELSE IF v.value["token_type"] = REGISTERED_USER_KEY_VALUE
    THEN AuthServiceJWTValidator_parse_registered_user_token(v.value)
    ELSE Raise("FailedParsingJWTToken", "")

\* chat_be: AuthHTTPRequest.parse_auth_bearer_header, were the number of
\* parts not compared with 2
chat_be_parse_auth_bearer_header_any_count(authorization_bearer_header) ==
    LET header_values == authorization_bearer_header IN
    IF Len(header_values) < 2
    THEN Raise("AuthorizationHeaderInvalidHeaderFormat",
               "Authorization token is too short and missing parts")
    ELSE IF header_values[1].text # "Bearer"
    THEN Raise("AuthorizationHeaderInvalidHeaderFormat",
               "Authorization token missing 'Bearer' in its beginning")
    ELSE IF header_values[2].text = ""
    THEN Raise("AuthorizationHeaderInvalidHeaderFormat",
               "Token attached to authorization token is empty and has less than 1 char")
    ELSE Return(header_values[2])

\* chat_be: AuthHTTPRequest.parse_auth_bearer_header
chat_be_parse_auth_bearer_header(authorization_bearer_header) ==
    LET header_values == authorization_bearer_header IN
    IF Len(header_values) < 2
    THEN Raise("AuthorizationHeaderInvalidHeaderFormat",
               "Authorization token is too short and missing parts")
    ELSE IF Len(header_values) # 2
    THEN Raise("AuthorizationHeaderInvalidHeaderFormat",
               "Authorization token has too many parts")
    ELSE IF header_values[1].text # "Bearer"
    THEN Raise("AuthorizationHeaderInvalidHeaderFormat",
               "Authorization token missing 'Bearer' in its beginning")
    ELSE IF header_values[2].text = ""
    THEN Raise("AuthorizationHeaderInvalidHeaderFormat",
               "Token attached to authorization token is empty and has less than 1 char")
    ELSE Return(header_values[2])

\* chat_be: AuthHTTPRequest.verify_micro_service_jwt_token, were the service
\* name not compared
chat_be_verify_micro_service_jwt_token_any_name(authorization_bearer_header, micro_service_name, time) ==
    LET h == chat_be_parse_auth_bearer_header(authorization_bearer_header) IN
    IF h.kind = "raise" THEN h
    ELSE LET r == AuthServiceJWTValidator_read_jwt_token(h.value, time) IN
         IF r.kind = "raise"
         THEN IF r.exc \in {"FailedParsingJWTToken", "JWTInvalidAuthException"}
              THEN Raise("AuthorizationHeaderInvalidToken", "Failed reading the JWT token!")
              ELSE r
         ELSE IF r.value["token_type"] # MICROSERVICE_KEY_VALUE
         THEN Raise("AuthorizationHeaderJWTTokenNotPermitted", "")
         ELSE IF micro_service_name # None
         THEN Return(NoPayload)
         ELSE r

\* chat_be: AuthHTTPRequest.verify_micro_service_jwt_token, over the reader
\* of AuthServiceJWTValidator. A call that ends without a return statement
\* returns Python's None, here NoPayload.
chat_be_verify_micro_service_jwt_token(authorization_bearer_header, micro_service_name, time) ==
    LET h == chat_be_parse_auth_bearer_header(authorization_bearer_header) IN
    IF h.kind = "raise" THEN h
    ELSE LET r == AuthServiceJWTValidator_read_jwt_token(h.value, time) IN
         IF r.kind = "raise"
         THEN IF r.exc \in {"FailedParsingJWTToken", "JWTInvalidAuthException"}
              THEN Raise("AuthorizationHeaderInvalidToken", "Failed reading the JWT token!")
              ELSE r
         ELSE IF r.value["token_type"] # MICROSERVICE_KEY_VALUE
         THEN Raise("AuthorizationHeaderJWTTokenNotPermitted", "")
         ELSE IF micro_service_name # None
         THEN IF r.value["service_name"] # micro_service_name[1]
              THEN Raise("AuthorizationHeaderJWTTokenNotPermitted", "")
              ELSE Return(NoPayload)
         ELSE r

\* chat_be: AuthHTTPRequest.verify_registered_user_jwt_token, were the kind
\* of the token not compared
chat_be_verify_registered_user_jwt_token_any_kind(authorization_bearer_header, time) ==
    LET h == chat_be_parse_auth_bearer_header(authorization_bearer_header) IN
    IF h.kind = "raise" THEN h
    ELSE LET r == AuthServiceJWTValidator_read_jwt_token(h.value, time) IN
         IF r.kind = "raise"
         THEN IF r.exc \in {"FailedParsingJWTToken", "JWTInvalidAuthException"}
              THEN Raise("AuthorizationHeaderInvalidToken", "Failed reading the JWT token!")
              ELSE r
         ELSE r

\* chat_be: AuthHTTPRequest.verify_registered_user_jwt_token
chat_be_verify_registered_user_jwt_token(authorization_bearer_header, time) ==
    LET h == chat_be_parse_auth_bearer_header(authorization_bearer_header) IN
    IF h.kind = "raise" THEN h
    ELSE LET r == AuthServiceJWTValidator_read_jwt_token(h.value, time) IN
         IF r.kind = "raise"
         THEN IF r.exc \in {"FailedParsingJWTToken", "JWTInvalidAuthException"}
              THEN Raise("AuthorizationHeaderInvalidToken", "Failed reading the JWT token!")
              ELSE r
         ELSE IF r.value["token_type"] # REGISTERED_USER_KEY_VALUE
         THEN Raise("AuthorizationHeaderJWTTokenNotPermitted", "")
         ELSE r

\* token strings that did not come out of the issuer's two operations:
\* claims with a field missing or an unknown token_type, signed with either
\* key, expiring early or late; complete claims under another algorithm; a
\* signature made over other claims; no JWT at all
ReaderExps == {1, MaxTime + 1}

OddPayloads ==
    {[token_type |-> MICROSERVICE_KEY_VALUE],
     [token_type |-> REGISTERED_USER_KEY_VALUE, email |-> "a@x", is_active |-> TRUE],
     [token_type |-> REGISTERED_USER_KEY_VALUE, user_id |-> 1, is_active |-> TRUE],
     [token_type |-> REGISTERED_USER_KEY_VALUE, user_id |-> 1, email |-> "a@x"],
     [service_name |-> CHAT_BE],
     [token_type |-> "admin", service_name |-> CHAT_BE]}

ReaderPayloads(base) == {WithExp(p, e) : p \in base, e \in ReaderExps}

ReaderTokens ==
    {jwt_encode(p, k, "RS256") :
        p \in ReaderPayloads(OddPayloads \cup ForeignBasePayloads), k \in Keys}
    \cup {jwt_encode(p, k, "HS256") :
            p \in ReaderPayloads(ForeignBasePayloads), k \in Keys}
    \cup {[jwt_encode(OtherPayload(p), "k1", "RS256") EXCEPT !.payload = p] :
            p \in {WithExp(q, MaxTime + 1) : q \in ForeignBasePayloads}}
    \cup {Word("garbage")}

\* the Authorization header a client sends with the token t
BearerHeader(t) == <<Word("Bearer"), t>>

\* a call: the operation, the service it is called in, the time and the
\* arguments besides the token
Call(op, by, time, args) == [op |-> op, by |-> by, at |-> time, args |-> args]

\* the outcome of the call c on the token t
CallOutcome(c, t) ==
    CASE c.op = "read_jwt_token" ->
            IF c.by = "auth_service"
            THEN read_jwt_token(t, c.at)
            ELSE AuthServiceJWTValidator_read_jwt_token(t, c.at)
      [] c.op = "is_token_valid" -> is_token_valid(t, c.at)
      [] c.op = "validate_jwt_token" ->
            Return(validate_jwt_token([jwt_token |-> t], c.at))
      [] c.op = "verify_micro_service_jwt_token" ->
            IF c.by = "auth_service"
            THEN verify_micro_service_jwt_token(
                    BearerHeader(t), c.args["micro_service_name"], c.at)
            ELSE chat_be_verify_micro_service_jwt_token(
                    BearerHeader(t), c.args["micro_service_name"], c.at)
      [] c.op = "verify_registered_user_jwt_token" ->
            IF c.by = "auth_service"
            THEN verify_registered_user_jwt_token(BearerHeader(t), c.at)
            ELSE chat_be_verify_registered_user_jwt_token(BearerHeader(t), c.at)

\* time passes; what the last call returned is forgotten
IssuerTick ==
    /\ Tick
    /\ call' = NoCall
    /\ outcome' = NoResult
    /\ UNCHANGED <<issuerVars, sysVars, jwtVars, validatorVars, clientVars>>

\* JWTIssuer.issue_micro_service_jwt for any name and secret
IssueMicroServiceJwt ==
    \E n \in MicroservicesCodeNames \cup {"other"}, secret \in Secrets :
        LET r == issue_micro_service_jwt(secret, n, now) IN
        /\ call' = Call("issue_micro_service_jwt", "auth_service", now,
                        [micro_service_name |-> n,
                         micro_service_initial_token |-> secret])
        /\ outcome' = r
        /\ IF r.kind = "return"
           THEN /\ tok' = r.value
                /\ payload_in' = MicroservicePayload(n)
                /\ signed_at' = now
                /\ origin' = "signed"
           ELSE UNCHANGED <<tok, payload_in, signed_at, origin>>
        /\ UNCHANGED <<now, issuerVars, sysVars, validatorVars, clientVars,
                       result, validated_by, validated_at>>

\* JWTIssuer.issue_user_jwt for any user details
IssueUserJwt ==
    \E user_id \in UserIds, email \in Emails, is_active \in BOOLEAN :
        LET j == issue_user_jwt(user_id, email, is_active, now) IN
        /\ call' = Call("issue_user_jwt", "auth_service", now,
                        [user_id |-> user_id, email |-> email,
                         is_active |-> is_active])
        /\ outcome' = Return(j)
        /\ tok' = j
        /\ payload_in' = RegisteredUserPayload(user_id, email, is_active)
        /\ signed_at' = now
        /\ origin' = "signed"
        /\ UNCHANGED <<now, issuerVars, sysVars, validatorVars, clientVars,
                       result, validated_by, validated_at>>

\* a token string arrives from outside
ArriveToken ==
    \E t \in ReaderTokens :
        /\ tok' = t
        /\ payload_in' = NoPayload
        /\ signed_at' = 0
        /\ origin' = "foreign"
        /\ call' = NoCall
        /\ outcome' = NoResult
        /\ UNCHANGED <<now, issuerVars, sysVars, validatorVars, clientVars,
                       result, validated_by, validated_at>>

\* an operation c that reads the token under test
ReadCall(c) ==
    /\ origin # "none"
    /\ call' = c
    /\ outcome' = CallOutcome(c, tok)
    /\ UNCHANGED <<now, issuerVars, sysVars, jwtVars, validatorVars, clientVars>>

\* read_jwt_token in the auth service or in the users manager
ReadJwtToken ==
    \E by \in {"auth_service", "users_manager"} :
        ReadCall(Call("read_jwt_token", by, now, NoPayload))

\* JWTIssuer.is_token_valid
IsTokenValid == ReadCall(Call("is_token_valid", "auth_service", now, NoPayload))

\* POST /validate_jwt_token with the token in the body
ValidateJwtToken ==
    ReadCall(Call("validate_jwt_token", "auth_service", now, NoPayload))

\* verify_micro_service_jwt_token with and without an expected name
VerifyMicroService ==
    \E by \in {"auth_service", "chat_be"},
       name \in {None} \cup {Some(n) : n \in MicroservicesCodeNames} :
        ReadCall(Call("verify_micro_service_jwt_token", by, now,
                      [micro_service_name |-> name]))

\* verify_registered_user_jwt_token
VerifyRegisteredUser ==
    \E by \in {"auth_service", "chat_be"} :
        ReadCall(Call("verify_registered_user_jwt_token", by, now, NoPayload))

NextIssuer ==
    \/ IssuerTick
    \/ IssueMicroServiceJwt
    \/ IssueUserJwt
    \/ ArriveToken
    \/ ReadJwtToken
    \/ IsTokenValid
    \/ ValidateJwtToken
    \/ VerifyMicroService
    \/ VerifyRegisteredUser

SpecIssuer == InitJwt /\ [][NextIssuer]_vars

(***************************************************************************)
(* Properties of the token signer and reader (SpecJwt).                    *)
(***************************************************************************)
\* tok carries a signature that the verifier's key accepts
CorrectlySigned(t) ==
    /\ t.text = "jwt"
    /\ t.alg = key_algorithm
    /\ SignatureVerifies(t, public_key)

BadSignatureOutcome(r) ==
    /\ r.kind = "raise"
    /\ r.exc = "JWTTokenInvalidException"
    /\ r.msg # "Token has expired"

ExpiredOutcome == Raise("JWTTokenInvalidException", "Token has expired")

\* C8: round trip. Validating a token that sign_token made from payload P,
\* before its expiry and with the matching key pair, returns a payload with
\* exactly P's fields plus exp, and exp is the signing time plus the
\* validity window.
C8_RoundTrip ==
    (origin = "signed" /\ result.kind # "none"
        /\ private_key = public_key
        /\ validated_at < signed_at + expiration_time)
    => /\ result.kind = "return"
       /\ DOMAIN result.value = DOMAIN payload_in \cup {"exp"}
       /\ \A k \in DOMAIN payload_in : result.value[k] = payload_in[k]
       /\ result.value["exp"] = signed_at + expiration_time

C8_Witness ==
    /\ origin = "signed"
    /\ result.kind = "return"
    /\ validated_by = "auth_service"
    /\ validated_at > signed_at
    /\ payload_in["token_type"] = REGISTERED_USER_KEY_VALUE

\* C9: a token whose signature the verifier's public key does not accept
\* (signed with another private key, tampered, or malformed) always fails
\* validation with the bad signature failure, whatever its claims and
\* expiry.
C9_BadSignatureAlways ==
    (result.kind # "none" /\ ~CorrectlySigned(tok)) => BadSignatureOutcome(result)

\* C10: a correctly signed token whose exp is in the past fails validation
\* with the expired failure, and that outcome differs from the outcome of
\* every token with a bad signature.
C10_ExpiredDistinct ==
    (result.kind # "none" /\ CorrectlySigned(tok)
        /\ "exp" \in DOMAIN tok.payload /\ tok.payload["exp"] < validated_at)
    => /\ result = ExpiredOutcome
       /\ \A t \in ForeignTokens :
            ~CorrectlySigned(t) =>
                /\ validate_token(t, validated_at) # result
                /\ _validate_token(t, validated_at) # result

C10_Witness ==
    /\ origin = "signed"
    /\ result = ExpiredOutcome
    /\ validated_by = "users_manager"
    /\ tok.payload["exp"] < validated_at

(***************************************************************************)
(* Properties of the bootstrap client (Spec).                              *)
(***************************************************************************)
\* C1: initial_jwt_validator never makes more than max_attempts attempts.
C1_AtMostMaxAttempts == iterations <= max_attempts

\* C4: a call of get_microservice_jwt that found the cached expiry within
\* the safety margin of the current time made exactly one bootstrap
\* exchange before it returned.
C4_RefreshWithinMargin ==
    \A t \in Threads :
        (pc[t] = "returned" /\ 0 <= delta[t] /\ delta[t] < Margin)
        => calls[t] = 1

\* C5: a call of get_microservice_jwt that finds the cached expiry more than
\* the safety margin in the future makes no bootstrap exchange, returns the
\* cached token and leaves the cached token and expiry as they are.
C5_AheadOfMargin(t) ==
    /\ pc[t] \in {"fresh", "requesting", "refreshed", "returned"}
    /\ delta[t] > Margin

C5_NoCall ==
    \A t \in Threads :
        C5_AheadOfMargin(t) => (pc[t] \in {"fresh", "returned"} /\ calls[t] = 0)

C5_CallerStep ==
    \A t \in Threads :
        /\ (pc[t] = "idle" /\ pc'[t] = "fresh" /\ delta'[t] > Margin)
            => UNCHANGED validatorVars
        /\ (pc[t] = "fresh" /\ delta[t] > Margin /\ pc'[t] = "returned")
            => /\ ret'[t] = _microservice_jwt_token
               /\ ret'[t] # None
               /\ UNCHANGED validatorVars

C5_CachedTokenNoCall == []C5_NoCall /\ [][C5_CallerStep]_vars

C5_Witness ==
    \E t \in Threads :
        /\ pc[t] = "returned"
        /\ delta[t] > Margin
        /\ calls[t] = 0
        /\ ret[t] = _microservice_jwt_token

\* C6: at most one bootstrap exchange of get_microservice_jwt is in flight
\* at any time.
InFlight == {t \in Threads : pc[t] = "requesting"}

C6_SingleFlight == Cardinality(InFlight) <= 1

\* C7: the client moves Uninitialized -> Initializing -> Ready <-> Refreshing
\* only, Failed is entered from Initializing only and only after
\* max_attempts attempts, a call returns a token only after
\* initial_jwt_validator succeeded, and Failed is never left.
Phase ==
    CASE initPc = "start" -> "Uninitialized"
      [] initPc \in {"get_key", "get_token", "sleep"} -> "Initializing"
      [] initPc = "ready" /\ (\E t \in Threads : pc[t] \in {"requesting", "refreshed"})
            -> "Refreshing"
      [] initPc = "ready" -> "Ready"
      [] OTHER -> "Failed"

PhaseMoves ==
    {<<"Uninitialized", "Initializing">>, <<"Initializing", "Ready">>,
     <<"Initializing", "Failed">>, <<"Ready", "Refreshing">>,
     <<"Refreshing", "Ready">>}

C7_PhaseStep ==
    /\ Phase' # Phase => <<Phase, Phase'>> \in PhaseMoves
    /\ (Phase' # Phase /\ Phase' = "Failed") => iterations >= max_attempts

C7_ReturnsOnlyWhenReady ==
    \A t \in Threads : pc[t] = "returned" => initPc = "ready"

C7_StateMachine == []C7_ReturnsOnlyWhenReady /\ [][C7_PhaseStep]_vars

(***************************************************************************)
(* Properties of the auth service and of the users manager starting        *)
(* against it (SpecSys).                                                   *)
(***************************************************************************)
\* C2: against the reachable auth service, with the users manager's name and
\* shared secret registered there (and a matching key pair and a validity
\* window that has not run out on arrival), no attempt of
\* initial_jwt_validator fails: the first one ends Ready.
C2_InitReachesReady ==
    (private_key = public_key /\ expiration_time > 0)
    => initPc \notin {"sleep", "raised", "failed"}

\* C3: every get_public_key request is answered with the public key and the
\* algorithm, whatever Authorization header it carries.
C3_PublicKeyAlways ==
    http_request.route = "get_public_key"
    => /\ http_response.status = 200
       /\ http_response.body = PublicKeyBody

(***************************************************************************)
(* Properties of issuing and reading tokens (SpecIssuer).                  *)
(***************************************************************************)
\* the token under test came out of the issuer, the verifiers hold the
\* public key of the issuer's pair and the token has not expired
IssuedAndLive ==
    /\ origin = "signed"
    /\ private_key = public_key
    /\ now < signed_at + expiration_time

AuthenticationFailed == Raise("MicroserviceAuthenticationTokenInvalidException", "")

IssueCall == call.op = "issue_micro_service_jwt"

\* C11: issue_micro_service_jwt with a registered name and that name's
\* registered secret returns a token, and read_jwt_token on such a token,
\* before its expiry, returns the claims of a microservice token with that
\* service name.
C11_IssueThenRead ==
    /\ (IssueCall
            /\ call.args["micro_service_name"] \in MicroservicesCodeNames
            /\ call.args["micro_service_initial_token"]
                = MICROSERVICES_TOKENS_DICT[call.args["micro_service_name"]])
        => /\ outcome.kind = "return"
           /\ outcome.value = tok
    /\ (call.op = "read_jwt_token" /\ IssuedAndLive
            /\ payload_in["token_type"] = MICROSERVICE_KEY_VALUE)
        => outcome = Return([token_type |-> MICROSERVICE_KEY_VALUE,
                             service_name |-> payload_in["service_name"]])

C11_Witness ==
    /\ call.op = "read_jwt_token"
    /\ call.by = "users_manager"
    /\ IssuedAndLive
    /\ now > signed_at
    /\ payload_in = MicroservicePayload(CHAT_BE)
    /\ outcome.kind = "return"
    /\ outcome.value["service_name"] = CHAT_BE

\* C12: issue_micro_service_jwt with a registered name and a secret that is
\* not that name's registered secret (the registered secret of another
\* service included) raises the authentication failure and issues no token.
C12_WrongSecret ==
    /\ IssueCall
    /\ call.args["micro_service_name"] \in MicroservicesCodeNames
    /\ call.args["micro_service_initial_token"]
        # MICROSERVICES_TOKENS_DICT[call.args["micro_service_name"]]

C12_Fails == C12_WrongSecret => outcome = AuthenticationFailed

C12_NoToken == C12_WrongSecret' => UNCHANGED <<tok, payload_in, signed_at, origin>>

C12_WrongSecretFails == []C12_Fails /\ [][C12_NoToken]_vars

C12_Witness ==
    /\ IssueCall
    /\ call.args["micro_service_name"] = CHAT_BE
    /\ call.args["micro_service_initial_token"] = MICROSERVICES_TOKENS_DICT[USERS_MANAGER]
    /\ outcome = AuthenticationFailed
    /\ origin = "signed"

C14_UserIssueThenRead ==
    /\ call.op = "issue_user_jwt"
        => /\ outcome.kind = "return"
           /\ outcome.value = tok
    /\ (call.op = "read_jwt_token" /\ IssuedAndLive
            /\ payload_in["token_type"] = REGISTERED_USER_KEY_VALUE)
        => outcome = Return([token_type |-> REGISTERED_USER_KEY_VALUE,
                             user_id |-> payload_in["user_id"],
                             email |-> payload_in["email"],
                             is_active |-> payload_in["is_active"]])

C14_Witness ==
    /\ call.op = "read_jwt_token"
    /\ call.by = "users_manager"
    /\ IssuedAndLive
    /\ now > signed_at
    /\ payload_in = RegisteredUserPayload(2, "b@x", FALSE)
    /\ outcome.kind = "return"
    /\ outcome.value["is_active"] = FALSE

\* the verifier's key accepts the signature of t and t has not expired
ValidUnexpired(t, time) ==
    /\ CorrectlySigned(t)
    /\ "exp" \in DOMAIN t.payload => t.payload["exp"] > time

\* C15: is_token_valid returns true exactly for a correctly signed,
\* unexpired token, and returns false, without raising, for every token
\* with a bad signature and every expired token.
C15_IsTokenValidTotal ==
    call.op = "is_token_valid"
    => /\ outcome.kind = "return"
       /\ outcome.value = ValidUnexpired(tok, call.at)

\* C16: the validate_jwt_token route answers about the token submitted to
\* it: is_jwt_valid is true for a correctly signed, unexpired token and
\* false for any other, and the route never fails.
C16_ValidateRouteAnswers ==
    call.op = "validate_jwt_token"
    => /\ outcome.kind = "return"
       /\ outcome.value.status # 500
       /\ "is_jwt_valid" \in DOMAIN outcome.value.body
       /\ outcome.value.body["is_jwt_valid"] = ValidUnexpired(tok, call.at)

\* C17: what read_jwt_token and the verify operations over it return for a
\* token with a bad signature is what they return for an expired token.
ReaderOps ==
    {"read_jwt_token", "verify_micro_service_jwt_token",
     "verify_registered_user_jwt_token"}

ExpiredToken ==
    jwt_encode(WithExp(MicroservicePayload(CHAT_BE), 0), public_key, key_algorithm)

C17_ExpiredLikeBadSignature ==
    (call.op \in ReaderOps /\ ~CorrectlySigned(tok))
    => outcome = CallOutcome(call, ExpiredToken)

\* C18: read_jwt_token on a correctly signed, unexpired token raises
\* FailedParsingJWTToken when the token is a microservice token without
\* service_name or a registered user token without user_id, email or
\* is_active, and the claims it returns always carry every field of their
\* kind.
MicroserviceFields == {"token_type", "service_name"}
RegisteredUserFields == {"token_type", "user_id", "email", "is_active"}

MalformedToken == Raise("FailedParsingJWTToken", "")

MissingField(p) ==
    /\ "token_type" \in DOMAIN p
    /\ \/ /\ p["token_type"] = MICROSERVICE_KEY_VALUE
          /\ ~(MicroserviceFields \subseteq DOMAIN p)
       \/ /\ p["token_type"] = REGISTERED_USER_KEY_VALUE
          /\ ~(RegisteredUserFields \subseteq DOMAIN p)

C18_MissingFieldMalformed ==
    call.op = "read_jwt_token"
    => /\ (ValidUnexpired(tok, call.at) /\ MissingField(tok.payload))
            => outcome = MalformedToken
       /\ outcome.kind = "return"
            => DOMAIN outcome.value =
                    IF outcome.value["token_type"] = MICROSERVICE_KEY_VALUE
                    THEN MicroserviceFields
                    ELSE RegisteredUserFields

C18_Witness ==
    /\ call.op = "read_jwt_token"
    /\ call.by = "users_manager"
    /\ ValidUnexpired(tok, call.at)
    /\ MissingField(tok.payload)
    /\ tok.payload["token_type"] = REGISTERED_USER_KEY_VALUE
    /\ "email" \notin DOMAIN tok.payload
    /\ outcome = MalformedToken

\* C19: read_jwt_token on a correctly signed, unexpired token raises
\* FailedParsingJWTToken, and nothing else, when token_type is neither
\* microservice nor registered_user and when the payload has no token_type.
C19_UnknownTypeMalformed ==
    (call.op = "read_jwt_token" /\ ValidUnexpired(tok, call.at)
        /\ ("token_type" \in DOMAIN tok.payload
                => tok.payload["token_type"]
                    \notin {MICROSERVICE_KEY_VALUE, REGISTERED_USER_KEY_VALUE}))
    => outcome = MalformedToken

\* C20: verify_micro_service_jwt_token with an expected service name raises
\* AuthorizationHeaderJWTTokenNotPermitted for every correctly signed,
\* unexpired microservice token made out to another service.
NotPermitted == Raise("AuthorizationHeaderJWTTokenNotPermitted", "")

C20_WrongNameNotPermitted ==
    (call.op = "verify_micro_service_jwt_token"
        /\ call.args["micro_service_name"] # None
        /\ ValidUnexpired(tok, call.at)
        /\ MicroserviceFields \subseteq DOMAIN tok.payload
        /\ tok.payload["token_type"] = MICROSERVICE_KEY_VALUE
        /\ tok.payload["service_name"] # call.args["micro_service_name"][1])
    => outcome = NotPermitted

C20_Witness ==
    /\ call.op = "verify_micro_service_jwt_token"
    /\ call.by = "chat_be"
    /\ call.args["micro_service_name"] = Some(USERS_MANAGER)
    /\ IssuedAndLive
    /\ payload_in = MicroservicePayload(CHAT_BE)
    /\ outcome = NotPermitted

\* a correctly signed, unexpired token with every field of the kind k
WellFormed(t, time, k) ==
    /\ ValidUnexpired(t, time)
    /\ "token_type" \in DOMAIN t.payload
    /\ t.payload["token_type"] = k
    /\ (IF k = MICROSERVICE_KEY_VALUE THEN MicroserviceFields
        ELSE RegisteredUserFields) \subseteq DOMAIN t.payload

MaxHeaderLen == 4
Space == " "
Fragments == {Space, "Bearer", "bearer", "x"}
HeaderStrings == UNION {[1..n -> Fragments] : n \in 0..MaxHeaderLen}

\* the string the fragments spell
RECURSIVE Text(_)
Text(s) == IF s = <<>> THEN "" ELSE s[1] \o Text(Tail(s))

\* str.split(" "): the parts between single spaces, empty parts included
RECURSIVE str_split(_)
str_split(s) ==
    IF \A i \in 1..Len(s) : s[i] # Space
    THEN <<Word(Text(s))>>
    ELSE LET i == CHOOSE j \in 1..Len(s) :
                    s[j] = Space /\ \A k \in 1..(j - 1) : s[k] # Space
         IN <<Word(Text(SubSeq(s, 1, i - 1)))>> \o str_split(SubSeq(s, i + 1, Len(s)))

\* a client sends a header value and a service parses it
ParseHeader ==
    \E h \in HeaderStrings, by \in {"auth_service", "chat_be"} :
        /\ call' = Call("parse_auth_bearer_header", by, now, [header |-> h])
        /\ outcome' = IF by = "auth_service"
                      THEN parse_auth_bearer_header(str_split(h))
                      ELSE chat_be_parse_auth_bearer_header(str_split(h))
        /\ UNCHANGED <<now, issuerVars, sysVars, jwtVars, validatorVars, clientVars>>

NextHeader == ParseHeader

\* parsing a header reads nothing of the issuer: one configuration is enough
InitHeader ==
    /\ InitJwt
    /\ public_key = "k1"
    /\ expiration_time = MaxValidity

SpecHeader == InitHeader /\ [][NextHeader]_vars

\* the header value is the word Bearer, one space, and a non-empty token
\* without a space
BearerAndToken(h) ==
    \E k \in 1..Len(h) :
        /\ \A i \in 1..k : h[i] # Space
        /\ Text(SubSeq(h, 1, k)) = "Bearer"
        /\ k + 1 < Len(h)
        /\ h[k + 1] = Space
        /\ \A i \in (k + 2)..Len(h) : h[i] # Space

TokenOf(h) ==
    LET k == CHOOSE j \in 1..Len(h) : h[j] = Space
    IN Word(Text(SubSeq(h, k + 1, Len(h))))

\* C23: parse_auth_bearer_header returns the token exactly when the header
\* value is the word Bearer, one space and a non-empty token without a space;
\* for every other value it raises AuthorizationHeaderInvalidHeaderFormat.
C23_ParseBearerHeader ==
    call.op = "parse_auth_bearer_header" =>
        IF BearerAndToken(call.args["header"])
        THEN outcome = Return(TokenOf(call.args["header"]))
        ELSE /\ outcome.kind = "raise"
             /\ outcome.exc = "AuthorizationHeaderInvalidHeaderFormat"

C23_Witness ==
    /\ call.op = "parse_auth_bearer_header"
    /\ call.by = "chat_be"
    /\ call.args["header"] = <<"Bearer", Space, "x", "x">>
    /\ outcome = Return(Word("xx"))

(***************************************************************************)
(* The routes of the three services that ask for a token: the FastAPI      *)
(* dependencies of the users manager and of the auth service, and the      *)
(* decorator and error handlers of the chat backend. The header of a       *)
(* request is None when the request carries no Authorization header.       *)
(***************************************************************************)
\* the route function runs
HandlerReached == Response(200, NoPayload, "route handler")

\* FastAPI: a parameter declared `Authorization: str = Header()` is required;
\* a request without it is answered before the dependency runs
RequestValidationError == Response(422, NoPayload, "field required")

\* fast_api_dependencies.py: the except clauses of the three dependencies
DependencyOutcome(v) ==
    IF v.kind = "return" THEN v
    ELSE CASE v.exc = "AuthorizationHeaderJWTTokenNotPermitted" ->
                Raise("HTTPException", "Not permitted to use this API route")
           [] v.exc = "AuthorizationHeaderInvalidHeaderFormat" ->
                Raise("HTTPException", "Authorization header content is invalid")
           [] v.exc = "AuthorizationHeaderInvalidToken" ->
                Raise("HTTPException", "JWT given is invalid")
           [] OTHER -> v

\* users_manager: require_microservice_jwt_token
users_manager_require_microservice_jwt_token(Authorization, time) ==
    DependencyOutcome(chat_be_verify_micro_service_jwt_token(Authorization, None, time))

\* users_manager: require_chat_be_microservice_jwt_token
require_chat_be_microservice_jwt_token(Authorization, time) ==
    DependencyOutcome(
        chat_be_verify_micro_service_jwt_token(Authorization, Some(CHAT_BE), time))

\* users_manager: require_registered_user_jwt_token
require_registered_user_jwt_token(Authorization, time) ==
    DependencyOutcome(chat_be_verify_registered_user_jwt_token(Authorization, time))

\* a FastAPI route behind a dependency
DependencyResponse(v) ==
    IF v.kind = "return" THEN HandlerReached ELSE ErrorResponse(v)

\* chat_be: user_jwt_token_required
user_jwt_token_required(header, time) ==
    IF header = None
    THEN Raise("MissingAuthorizationHeader", "Missing \"Authorization\" header")
    ELSE chat_be_verify_registered_user_jwt_token(header[1], time)

\* chat_be main.py: the error handlers registered with @app.errorhandler; of
\* the two registered for AuthorizationHeaderInvalidToken the later one
\* stays, and an exception without a handler is answered with 500
chat_be_errorhandler(v) ==
    CASE v.exc = "AuthorizationHeaderInvalidToken" ->
            Response(400, NoPayload,
                     "Wrong authorization header value ( Probably expired / wrong token )")
      [] v.exc = "AuthorizationHeaderJWTTokenNotPermitted" ->
            Response(400, NoPayload, "JWT token lack permissions to do this action")
      [] v.exc = "MissingAuthorizationHeader" ->
            Response(400, NoPayload, "Missing authorization header")
      [] OTHER -> Response(500, NoPayload, "Internal Server Error")

ProtectedRoutes ==
    {"users_manager:require_microservice_jwt_token",
     "users_manager:require_chat_be_microservice_jwt_token",
     "users_manager:require_registered_user_jwt_token",
     "auth_service:require_microservice_jwt_token",
     "chat_be:user_jwt_token_required"}

\* the answer of a protected route to a request with this header
protected_route(route, header, time) ==
    CASE route = "chat_be:user_jwt_token_required" ->
            LET v == user_jwt_token_required(header, time) IN
            IF v.kind = "return" THEN HandlerReached ELSE chat_be_errorhandler(v)
      [] route = "auth_service:require_microservice_jwt_token" ->
            DependencyResponse(require_microservice_jwt_token(
                IF header = None THEN DefaultHeader ELSE header[1], time))
      [] OTHER ->
            IF header = None THEN RequestValidationError
            ELSE DependencyResponse(
                    CASE route = "users_manager:require_microservice_jwt_token" ->
                            users_manager_require_microservice_jwt_token(header[1], time)
                      [] route = "users_manager:require_chat_be_microservice_jwt_token" ->
                            require_chat_be_microservice_jwt_token(header[1], time)
                      [] OTHER ->
                            require_registered_user_jwt_token(header[1], time))

\* auth service main.py: POST /sign_user_jwt
sign_user_jwt(user_details, header, time) ==
    LET microservice_token ==
            require_microservice_jwt_token(
                IF header = None THEN DefaultHeader ELSE header[1], time) IN
    IF microservice_token.kind = "raise"
    THEN ErrorResponse(microservice_token)
    ELSE Response(201,
                  [jwt_token |-> issue_user_jwt(user_details["user_id"],
                                                user_details["email"],
                                                user_details["is_active"], time)],
                  "Successfully returned a user JWT token")

\* the Authorization headers a client holding the token t may send
RequestHeaders(t) ==
    {None, Some(<<Word("Bearer")>>), Some(<<Word("Bearer"), Word("")>>),
     Some(<<Word("Token"), t>>), Some(<<Word("Bearer"), t, Word("x")>>),
     Some(BearerHeader(t))}

\* a client sends a request to a protected route
ProtectedRequest ==
    \E route \in ProtectedRoutes, h \in RequestHeaders(tok) :
        /\ origin # "none"
        /\ http_request' = [route |-> route, header |-> h, body |-> NoPayload,
                            at |-> now]
        /\ http_response' = protected_route(route, h, now)
        /\ UNCHANGED <<now, issuerVars, jwtVars, validatorVars, clientVars, held,
                       callVars>>

\* a client asks the auth service for a user token
SignUserJwtRequest ==
    \E h \in RequestHeaders(tok), is_active \in BOOLEAN :
        LET user_details == [user_id |-> 1, email |-> "a@x", is_active |-> is_active] IN
        /\ origin # "none"
        /\ http_request' = [route |-> "sign_user_jwt", header |-> h,
                            body |-> user_details, at |-> now]
        /\ http_response' = sign_user_jwt(user_details, h, now)
        /\ UNCHANGED <<now, issuerVars, jwtVars, validatorVars, clientVars, held,
                       callVars>>

\* a client gets hold of a token before it sends its requests
ClientGetsToken ==
    /\ http_request = NoRequest
    /\ (IssueMicroServiceJwt \/ IssueUserJwt \/ ArriveToken)

NextRoutes ==
    \/ IssuerTick
    \/ ClientGetsToken
    \/ ProtectedRequest
    \/ SignUserJwtRequest

\* one configuration of the issuer: the key pair matches and a token lives
\* for one tick
InitRoutes ==
    /\ InitJwt
    /\ public_key = "k1"
    /\ expiration_time = 1

SpecRoutes == InitRoutes /\ [][NextRoutes]_vars

\* the header is absent, or is not Bearer and a non-empty token
BadHeader(h) ==
    \/ h = None
    \/ ~ (Len(h[1]) = 2 /\ h[1][1].text = "Bearer" /\ h[1][2].text # "")

TokenIn(h) == h[1][2]

\* the kind of token a protected route asks for
RouteKind(route) ==
    IF route \in {"chat_be:user_jwt_token_required",
                  "users_manager:require_registered_user_jwt_token"}
    THEN REGISTERED_USER_KEY_VALUE
    ELSE MICROSERVICE_KEY_VALUE

OtherKind(k) ==
    IF k = MICROSERVICE_KEY_VALUE THEN REGISTERED_USER_KEY_VALUE
    ELSE MICROSERVICE_KEY_VALUE

\* the reason a response gives, whatever the words of the service
Reason(r) ==
    CASE r.detail \in {"Authorization header content is invalid",
                       "Missing authorization header"} -> "header format"
      [] r.detail \in {"JWT given is invalid",
                       "Wrong authorization header value ( Probably expired / wrong token )"}
            -> "invalid token"
      [] r.detail \in {"Not permitted to use this API route",
                       "JWT token lack permissions to do this action"}
            -> "insufficient permission"
      [] OTHER -> "none"

Refused(r, reason) == r.status = 401 /\ Reason(r) = reason

\* C24: on every protected route of every service a request whose
\* Authorization header is absent or malformed, whose token is invalid, or
\* whose token is of the wrong kind, is answered with status 401 and the
\* reason of its case: header format, invalid token, insufficient permission.
C24_Refused401 ==
    http_request.route \in ProtectedRoutes =>
        LET h == http_request.header
            k == RouteKind(http_request.route)
        IN  IF BadHeader(h)
            THEN Refused(http_response, "header format")
            ELSE IF WellFormed(TokenIn(h), http_request.at, OtherKind(k))
            THEN Refused(http_response, "insufficient permission")
            ELSE IF ~ WellFormed(TokenIn(h), http_request.at, k)
            THEN Refused(http_response, "invalid token")
            ELSE TRUE

\* the caller of sign_user_jwt presents a valid, unexpired microservice token
PresentsMicroserviceToken ==
    /\ ~ BadHeader(http_request.header)
    /\ WellFormed(TokenIn(http_request.header), http_request.at,
                  MICROSERVICE_KEY_VALUE)

\* C25: the sign_user_jwt route issues a user token only to a caller that
\* presents a valid, unexpired microservice token; every other caller gets
\* 401 and no user token.
C25_UserTokenOnlyForMicroservice ==
    http_request.route = "sign_user_jwt" =>
        /\ http_response.status = 201 => PresentsMicroserviceToken
        /\ ~ PresentsMicroserviceToken =>
                /\ http_response.status = 401
                /\ "jwt_token" \notin DOMAIN http_response.body

\* the part of C25 that is about the token alone: no user token leaves the
\* route unless the caller presented a valid, unexpired microservice token
C25_NoTokenOtherwise ==
    (http_request.route = "sign_user_jwt" /\ ~ PresentsMicroserviceToken)
    => "jwt_token" \notin DOMAIN http_response.body

\* C26: a call of get_microservice_jwt that refreshed returns the token its
\* own refresh obtained; a call whose exchange failed returns nothing.
C26_ReturnsObtained ==
    \A t \in Threads :
        /\ (pc[t] = "returned" /\ calls[t] = 1) =>
                (obtained[t] # None /\ ret[t] = obtained[t])
        /\ (pc[t] = "raised" /\ calls[t] = 1) => ret[t] = None

\* C27: the cached expiry is the exp claim of the cached token: both unset,
\* or both set from the same response of the auth service.
C27_ExpiryOfCachedToken ==
    \/ /\ _microservice_jwt_token = None
       /\ _microservice_jwt_token_expire_datetime = None
    \/ /\ _microservice_jwt_token # None
       /\ _microservice_jwt_token_expire_datetime # None
       /\ "exp" \in DOMAIN _microservice_jwt_token[1].payload
       /\ _microservice_jwt_token_expire_datetime[1]
            = _microservice_jwt_token[1].payload["exp"]

\* C28: initial_jwt_validator ends in success or in
\* FailedInitializingAuthServiceJWTValidatorClassException; no other
\* exception ends it.
C28_TwoOutcomes == initPc # "raised"

(***************************************************************************)
(* The users manager reading tokens with its validator while its callers   *)
(* ask for the microservice token.                                         *)
(***************************************************************************)
\* the tokens handed to the validator: the cached one, a user token of the
\* auth service, and a string that is no token
ValidatorReadTokens ==
    {Word("garbage"), issue_user_jwt(1, "a@x", TRUE, now)}
    \cup (IF _microservice_jwt_token = None THEN {} ELSE {_microservice_jwt_token[1]})

ValidatorReadCalls ==
    {Call("read_jwt_token", "users_manager", now, NoPayload),
     Call("verify_micro_service_jwt_token", "chat_be", now,
          [micro_service_name |-> None]),
     Call("verify_registered_user_jwt_token", "chat_be", now, NoPayload)}

\* a read that kept the token it was given
ValidatorRead_caching ==
    /\ initPc = "ready"
    /\ \E t \in ValidatorReadTokens, c \in ValidatorReadCalls :
        /\ call' = c
        /\ outcome' = CallOutcome(c, t)
        /\ _microservice_jwt_token' = Some(t)
    /\ UNCHANGED <<now, issuerVars, sysVars, jwtVars, _public_key, _key_algorithm,
                   _microservice_jwt_token_expire_datetime, clientVars>>

\* read_jwt_token / verify_*_jwt_token on an initialized validator
ValidatorRead ==
    /\ initPc = "ready"
    /\ \E t \in ValidatorReadTokens, c \in ValidatorReadCalls :
        /\ call' = c
        /\ outcome' = CallOutcome(c, t)
    /\ UNCHANGED <<now, issuerVars, sysVars, jwtVars, validatorVars, clientVars>>

NextValidator ==
    \/ Next
    \/ ValidatorRead

SpecValidator == Init /\ [][NextValidator]_vars

C29_Step ==
    /\ (_public_key' # _public_key \/ _key_algorithm' # _key_algorithm)
        => initPc = "get_key"
    /\ initPc \in {"ready", "raised", "failed"} => initPc' = initPc
    /\ call' # call => UNCHANGED validatorVars

\* C29: the public key and the algorithm of the validator are written only
\* by initial_jwt_validator: once it has returned, no step, a refresh
\* included, changes them, and a read_jwt_token or verify_* call changes no
\* field of the validator.
C29_KeyWrittenOnlyByInit == [][C29_Step]_vars

C29_Witness ==
    /\ initPc = "ready"
    /\ _public_key = Some(public_key)
    /\ \E t \in Threads : pc[t] = "refreshed"
    /\ call.op = "verify_micro_service_jwt_token"
    /\ outcome.kind = "return"

(***************************************************************************)
(* chat_be: POST /user/login. The chat backend asks the users manager      *)
(* whether the credentials are right and the user active, and then the     *)
(* auth service for a user token.                                          *)
(***************************************************************************)
\* what get_user_by_email_and_password finds for the credentials sent
UserLookups ==
    {Return([user_id |-> 1, email |-> "a@x", is_active |-> a]) : a \in BOOLEAN}
    \cup {Raise("UserFailedLoginException", "")}

UserLoginResult(is_login_success, is_active) ==
    [content |-> [is_login_success |-> is_login_success, is_active |-> is_active]]

\* users_manager main.py: POST /chat_be/users/login
chat_be_user_login(logged_in_user_details, Authorization, time) ==
    LET microservice_token ==
            require_chat_be_microservice_jwt_token(Authorization, time) IN
    IF microservice_token.kind = "raise"
    THEN ErrorResponse(microservice_token)
    ELSE IF logged_in_user_details.kind = "raise"
    THEN Response(200, UserLoginResult(FALSE, FALSE),
                  "Given details are wrong - either username or password are wrong")
    ELSE IF logged_in_user_details.value["is_active"]
    THEN Response(200, UserLoginResult(TRUE, TRUE),
                  "User details are correct and user is active - user can login to application")
    ELSE Response(200, UserLoginResult(TRUE, FALSE),
                  "User details are correct but user is in active - therefore he can't connect")

\* chat_be: UserManagerIntegration.login_user, given the users manager's
\* response
login_user(um_service_response) ==
    IF "content" \in DOMAIN um_service_response.body
    THEN Return(um_service_response.body["content"])
    ELSE Raise("KeyError", "content")

\* chat_be: AuthServiceIntegration.issue_user_jwt_token, given the auth
\* service's response
issue_user_jwt_token(auth_service_response) ==
    IF auth_service_response.status = 201
    THEN Return(auth_service_response.body["jwt_token"])
    ELSE Raise("BasResponseFromAuthServiceException", "Failed issuing a user JWT token")

\* Flask: an exception no handler is registered for
UnhandledResponse == Response(500, NoPayload, "Internal Server Error")

\* chat_be main.py: user_login, were is_active not looked at
user_login_any_user(um_service_response, auth_service_response) ==
    LET user_login_attempt_details == login_user(um_service_response) IN
    IF user_login_attempt_details.kind = "raise"
    THEN [requested |-> FALSE, response |-> UnhandledResponse]
    ELSE IF user_login_attempt_details.value["is_login_success"]
    THEN LET jwt_token == issue_user_jwt_token(auth_service_response) IN
         [requested |-> TRUE,
          response |-> IF jwt_token.kind = "raise" THEN UnhandledResponse
                       ELSE Response(200, [jwt_token |-> jwt_token.value],
                                     "Successfully logged in")]
    ELSE [requested |-> FALSE,
          response |-> Response(400, NoPayload, "Wrong email or password")]

\* chat_be main.py: user_login; `requested` tells whether the route called
\* issue_user_jwt_token
user_login(um_service_response, auth_service_response) ==
    LET user_login_attempt_details == login_user(um_service_response) IN
    IF user_login_attempt_details.kind = "raise"
    THEN [requested |-> FALSE, response |-> UnhandledResponse]
    ELSE IF user_login_attempt_details.value["is_login_success"]
    THEN IF user_login_attempt_details.value["is_active"]
         THEN LET jwt_token == issue_user_jwt_token(auth_service_response) IN
              [requested |-> TRUE,
               response |-> IF jwt_token.kind = "raise" THEN UnhandledResponse
                            ELSE Response(200, [jwt_token |-> jwt_token.value],
                                          "Successfully logged in")]
         ELSE [requested |-> FALSE,
               response |-> Response(403, NoPayload, "User is not active")]
    ELSE [requested |-> FALSE,
          response |-> Response(400, NoPayload, "Wrong email or password")]

\* the microservice token the chat backend presents: its own, or one the
\* users manager does not accept
ChatBeTokens(time) ==
    {sign_token(MicroservicePayload(CHAT_BE), time),
     sign_token(MicroservicePayload(USERS_MANAGER), time)}

\* a user logs in
UserLogin ==
    \E lookup \in UserLookups, t \in ChatBeTokens(now), is_active \in BOOLEAN :
        \E um \in {chat_be_user_login(lookup, BearerHeader(t), now)},
           auth \in {sign_user_jwt([user_id |-> 1, email |-> "a@x",
                                    is_active |-> is_active],
                                   Some(BearerHeader(t)), now)} :
            \E r \in {user_login(um, auth)} :
                /\ http_request' = [route |-> "user_login", header |-> None,
                                    body |-> [um |-> um], at |-> now]
                /\ http_response' = r.response
                /\ call' = IF r.requested
                           THEN Call("issue_user_jwt_token", "chat_be", now, NoPayload)
                           ELSE NoCall
                /\ outcome' = IF r.requested THEN Return(auth.body) ELSE NoResult
                /\ UNCHANGED <<now, issuerVars, jwtVars, validatorVars, clientVars,
                               held>>

NextLogin ==
    \/ ClientTick
    \/ UserLogin

SpecLogin == InitJwt /\ [][NextLogin]_vars

\* the users manager reported is_login_success and is_active both true
ReportedActiveLogin ==
    LET um == http_request.body["um"] IN
    /\ um.status = 200
    /\ "content" \in DOMAIN um.body
    /\ um.body["content"]["is_login_success"]
    /\ um.body["content"]["is_active"]

\* C30: user_login calls issue_user_jwt_token only after the users manager
\* reported is_login_success and is_active both true; a response 400 or 403
\* comes with no such call and carries no token, and a token is returned
\* only after such a call.
C30_TokenOnlyForActiveLogin ==
    http_request.route = "user_login" =>
        /\ call.op = "issue_user_jwt_token" => ReportedActiveLogin
        /\ http_response.status \in {400, 403} =>
                (call = NoCall /\ "jwt_token" \notin DOMAIN http_response.body)
        /\ "jwt_token" \in DOMAIN http_response.body =>
                (call.op = "issue_user_jwt_token" /\ ReportedActiveLogin)

C30_Witness ==
    /\ http_request.route = "user_login"
    /\ http_request.body["um"].body = UserLoginResult(TRUE, FALSE)
    /\ http_response.status = 403
    /\ call = NoCall

====
